---- MODULE Spec2Model ----
(***************************************************************************)
(* Model of mechanics/src/ordered_card.rs: the memoized enumerators        *)
(* find_tuple_partitions, compute_adjacent_assignments,                    *)
(* group_into_sequential_tuples, full_decomposition_ordering and the       *)
(* refinement walk subsequent_decomposition_ordering, run by threads that  *)
(* share the three Mutex-protected caches.                                 *)
(***************************************************************************)
EXTENDS Integers, Sequences, FiniteSets, Bags, TLC

\* ---------------------------------------------------------------- bounds
\* Largest key of a top-level enumerator call in Spec.
MaxN == 6
\* Number of top-level enumerator calls the single caller of Spec makes.
MaxCalls == 2
\* Largest key of a top-level compute_adjacent_assignments call in Spec.
MaxK == 4
\* Largest total card count and run count of a shape given to
\* subsequent_decomposition_ordering in SpecSub.
MaxCards == 6
MaxRuns == 3
\* Threads, largest key and calls per thread in SpecConc.
NThreads == 2
MaxKeyConc == 2
MaxCallsConc == 1
\* Longest run [n] and longest run [2, ..., 2] of a shape in SpecOrder.
MaxSingle == 6
MaxTwos == 5

\* ------------------------------------------------------- sequence helpers
Range(s) == {s[i] : i \in 1..Len(s)}

RECURSIVE Sum(_)
Sum(s) == IF s = <<>> THEN 0 ELSE Head(s) + Sum(Tail(s))

RECURSIVE Concat(_)
Concat(ss) == IF ss = <<>> THEN <<>> ELSE Head(ss) \o Concat(Tail(ss))

Reverse(s) == [i \in 1..Len(s) |-> s[Len(s) + 1 - i]]

Front(s) == SubSeq(s, 1, Len(s) - 1)

Last(s) == s[Len(s)]

MaxOf(S) == CHOOSE x \in S : \A y \in S : y <= x

\* Ord for Vec<usize>: lexicographic, a proper prefix is smaller.
\* -1 = Less, 0 = Equal, 1 = Greater.
RECURSIVE CmpVec(_, _)
CmpVec(a, b) ==
    IF a = <<>> THEN (IF b = <<>> THEN 0 ELSE -1)
    ELSE IF b = <<>> THEN 1
    ELSE IF Head(a) < Head(b) THEN -1
    ELSE IF Head(a) > Head(b) THEN 1
    ELSE CmpVec(Tail(a), Tail(b))

\* .collect(): the Vec of the elements f[1], ..., f[Len(f)], each computed
\* once.
Collect(f) == SubSeq(f, 1, Len(f))

\* v.sort_by(|a, b| b.cmp(a)): stable sort, greatest vector first. (SortSeq
\* is an insertion sort: an element moves in front of those it is strictly
\* before and of no other, so equal elements keep their order.)
SortDesc(s) == SortSeq(s, LAMBDA a, b : CmpVec(a, b) = 1)

\* The elements of s at the positions that pass Test, in their order.
KeepPositions(s, Test(_)) ==
    LET kept == SelectSeq([i \in 1..Len(s) |-> i], Test)
    IN  Collect([k \in 1..Len(kept) |-> s[kept[k]]])

\* Vec::dedup: drops an element equal to its predecessor.
Dedup(s) == KeepPositions(s, LAMBDA i : i = 1 \/ s[i] # s[i - 1])

\* Itertools::unique: keeps the first occurrence of every element.
Unique(s) == KeepPositions(s, LAMBDA i : \A j \in 1..(i - 1) : s[j] # s[i])

\* ------------------------------------------------- find_tuple_partitions
\* Variant: one copy of g per position, whether or not its value was seen.
RECURSIVE IncrementedEveryFrom(_, _)
IncrementedEveryFrom(g, i) ==
    IF i > Len(g) THEN <<>>
    ELSE << [g EXCEPT ![i] = g[i] + 1] >> \o IncrementedEveryFrom(g, i + 1)

\* The "for v in &g" loop: one copy of g per distinct value v, with the first
\* occurrence of v incremented.
RECURSIVE IncrementedFrom(_, _)
IncrementedFrom(g, i) ==
    IF i > Len(g) THEN <<>>
    ELSE (IF \E j \in 1..(i - 1) : g[j] = g[i]
          THEN <<>>
          ELSE << [g EXCEPT ![i] = g[i] + 1] >>) \o IncrementedFrom(g, i + 1)

\* The "for mut g in smaller_groupings" loop.
RECURSIVE ExpandGroupings(_)
ExpandGroupings(smaller) ==
    IF smaller = <<>> THEN <<>>
    ELSE IncrementedFrom(Head(smaller), 1) \o << Append(Head(smaller), 1) >>
         \o ExpandGroupings(Tail(smaller))

\* Variant: the comparator of the sort is a.cmp(b), smallest vector first.
TuplePartitionsAscending(num, smaller_groupings) ==
    Dedup(Reverse(SortDesc(IF num = 1 THEN << <<1>> >>
                           ELSE ExpandGroupings(smaller_groupings))))

\* The value find_tuple_partitions(num) inserts, given the list returned by
\* the recursive call (unused when num = 1).
TuplePartitionsOf(num, smaller_groupings) ==
    Dedup(SortDesc(IF num = 1 THEN << <<1>> >>
                   ELSE ExpandGroupings(smaller_groupings)))

\* ------------------------------------------ compute_adjacent_assignments
\* Labels are 0 .. length-1 as in the source.
ExtendPart(part, elem) ==
    [i \in 1..Len(part) |-> [part EXCEPT ![i] = Append(@, elem)]]
    \o << Append(part, <<elem>>) >>

RECURSIVE ExtendAll(_, _)
ExtendAll(shorter, elem) ==
    IF shorter = <<>> THEN <<>>
    ELSE ExtendPart(Head(shorter), elem) \o ExtendAll(Tail(shorter), elem)

MaxClusterLen(a) == MaxOf({Len(a[i]) : i \in 1..Len(a)})

\* Variant: the comparator without its .then(...) tie-break.
AssignmentBeforeByMaxOnly(a, b) == MaxClusterLen(b) < MaxClusterLen(a)

\* The comparator of assignments.sort_by: TRUE when a sorts strictly before b.
AssignmentBefore(a, b) ==
    \/ MaxClusterLen(b) < MaxClusterLen(a)
    \/ MaxClusterLen(b) = MaxClusterLen(a) /\ Len(a) < Len(b)

\* assignments.sort_by(...): stable.
SortAssignments(s) == SortSeq(s, AssignmentBefore)

\* The value compute_adjacent_assignments(length) inserts for length > 1.
AdjacentAssignmentsOf(length, shorter) ==
    Dedup(SortAssignments(ExtendAll(shorter, length - 1)))

\* ------------------------------------------ group_into_sequential_tuples
RemoveAt(s, i) == SubSeq(s, 1, i - 1) \o SubSeq(s, i + 1, Len(s))

\* Itertools::permutations(p.len()): lexicographic in the positions.
RECURSIVE PermutationsOf(_)
PermutationsOf(p) ==
    IF p = <<>> THEN << <<>> >>
    ELSE Concat([i \in 1..Len(p) |->
            LET rest == PermutationsOf(RemoveAt(p, i))
            IN  [j \in 1..Len(rest) |-> <<p[i]>> \o rest[j]]])

\* Itertools::multi_cartesian_product: the last list varies fastest.
RECURSIVE CartesianProduct(_)
CartesianProduct(lists) ==
    IF lists = <<>> THEN << <<>> >>
    ELSE LET rest == CartesianProduct(Tail(lists))
             first == Head(lists)
         IN  Concat([i \in 1..Len(first) |->
                 [j \in 1..Len(rest) |-> <<first[i]>> \o rest[j]]])

IsUniform(p) == \A i \in 1..Len(p) : p[i] = p[1]

\* Variant: a cluster is never permuted.
ExpandAssignmentUnpermuted(values, assignment) ==
    << [c \in 1..Len(assignment) |->
          [i \in 1..Len(assignment[c]) |-> values[assignment[c][i] + 1]]] >>

\* The closure given to flat_map for one assignment.
ExpandAssignment(values, assignment) ==
    LET mapped == [c \in 1..Len(assignment) |->
                     [i \in 1..Len(assignment[c]) |-> values[assignment[c][i] + 1]]]
    IN  IF \A c \in 1..Len(mapped) : IsUniform(mapped[c])
        THEN << mapped >>
        ELSE CartesianProduct([c \in 1..Len(mapped) |->
                                 Unique(PermutationsOf(mapped[c]))])

\* group_into_sequential_tuples(values), given compute_adjacent_assignments'
\* answer for values.len().
SequentialTuplesOf(values, assignments) ==
    Unique(Concat([a \in 1..Len(assignments) |->
                     ExpandAssignment(values, assignments[a])]))

\* ------------------------------------------- full_decomposition_ordering
OneIdx(group) ==
    IF \E i \in 1..Len(group) : group[i] = 1
    THEN (CHOOSE i \in 1..Len(group) :
             group[i] = 1 /\ \A j \in 1..(i - 1) : group[j] # 1) - 1
    ELSE Len(group)

Gt1(group) == SubSeq(group, 1, OneIdx(group))

Eq1(group) == SubSeq(group, OneIdx(group) + 1, Len(group))

Singles(eq_1) == [i \in 1..Len(eq_1) |-> << eq_1[i] >>]

\* Variant: the size-1 parts are not appended to the decomposition.
ExtendDecompositionsWithoutSingles(seq_tuples, eq_1) ==
    [d \in 1..Len(seq_tuples) |-> SortDesc(seq_tuples[d])]

\* The inner "for mut decomposition in group_into_sequential_tuples(gt_1)".
ExtendDecompositions(seq_tuples, eq_1) ==
    [d \in 1..Len(seq_tuples) |-> SortDesc(seq_tuples[d] \o Singles(eq_1))]

\* ------------------------------------- subsequent_decomposition_ordering
\* adj_req.sort_by(|a, b| b.cmp(a)) on a Vec<usize>: greatest size first.
RECURSIVE InsertSizeDesc(_, _)
InsertSizeDesc(x, t) ==
    IF t = <<>> THEN <<x>>
    ELSE IF x > Head(t) THEN <<x>> \o t
    ELSE <<Head(t)>> \o InsertSizeDesc(x, Tail(t))

RECURSIVE SortSizesDescAcc(_, _)
SortSizesDescAcc(acc, s) ==
    IF s = <<>> THEN acc
    ELSE SortSizesDescAcc(InsertSizeDesc(Head(s), acc), Tail(s))

SortSizesDesc(run) == SortSizesDescAcc(<<>>, run)

\* The "for adj_req in &mut adj_reqs" loop.
SortRuns(adj_reqs) == [i \in 1..Len(adj_reqs) |-> SortSizesDesc(adj_reqs[i])]

\* Variant: the entry equal to [adj_req] is looked at but left in the list.
PopUntilKeepingMatch(decomp, adj_req) ==
    LET matches == { i \in 1..Len(decomp) :
                       Len(decomp[i]) = 1 /\ decomp[i][1] = adj_req }
    IN  IF matches = {} THEN <<>> ELSE SubSeq(decomp, 1, MaxOf(matches))

\* "while let Some(v) = decomp.pop()": pops from the end of the reversed
\* list until the popped entry is [adj_req]; what is left is the queue.
\* The entries from the last one equal to [adj_req] on are popped; when there
\* is none, every entry is.
PopUntil(decomp, adj_req) ==
    LET matches == { i \in 1..Len(decomp) :
                       Len(decomp[i]) = 1 /\ decomp[i][1] = adj_req }
    IN  IF matches = {} THEN <<>> ELSE SubSeq(decomp, 1, MaxOf(matches) - 1)

\* Variant: decomp.reverse() is left out, so the pops run from the end of
\* full_decomposition_ordering's answer.
RefinementQueueUnreversed(full, adj_req) == PopUntil(full, adj_req)

\* The queue of one run, from full_decomposition_ordering's answer.
RefinementQueue(full, adj_req) == PopUntil(Reverse(full), adj_req)

\* Variant: the length test is a.len() >= 1.
CanIncludeNewAdjacencyFromOne(adj_reqs, include_new_adjacency) ==
    [i \in 1..Len(adj_reqs) |-> include_new_adjacency \/ Len(adj_reqs[i]) >= 1]

CanIncludeNewAdjacency(adj_reqs, include_new_adjacency) ==
    [i \in 1..Len(adj_reqs) |-> include_new_adjacency \/ Len(adj_reqs[i]) > 1]

\* h.sort_by(...): stable, the index with the longest remaining queue first.
\* Indices are positions 1..n here (0..n-1 in the source).
RECURSIVE InsertIndex(_, _, _)
InsertIndex(x, t, decompositions) ==
    IF t = <<>> THEN <<x>>
    ELSE IF Len(decompositions[Head(t)]) < Len(decompositions[x]) THEN <<x>> \o t
    ELSE <<Head(t)>> \o InsertIndex(x, Tail(t), decompositions)

RECURSIVE SortIndicesAcc(_, _, _)
SortIndicesAcc(acc, s, decompositions) ==
    IF s = <<>> THEN acc
    ELSE SortIndicesAcc(InsertIndex(Head(s), acc, decompositions), Tail(s),
                        decompositions)

\* Variant: the index with the shortest remaining queue comes first.
SortIndicesShortestFirst(h, decompositions) ==
    Reverse(SortIndicesAcc(<<>>, h, decompositions))

SortIndices(h, decompositions) == SortIndicesAcc(<<>>, h, decompositions)

\* "let include = h.iter().all(...)".
Include(h, current_decomps, can_include_new_adjacency) ==
    \A k \in 1..Len(h) :
        \A a \in 1..Len(current_decomps[h[k]]) :
            \/ Len(current_decomps[h[k]][a]) = 1
            \/ can_include_new_adjacency[h[k]]

\* The flat_map over h followed by full_decomp.sort_by.
MergedDecomposition(h, current_decomps) ==
    SortDesc(Concat([k \in 1..Len(h) |-> current_decomps[h[k]]]))

\* ================================================================= state
VARIABLES
    cache,      \* the three lazy_static maps, each a function key -> value
    mutex,      \* per map: the thread holding its Mutex, 0 when free
    stack,      \* per thread: its call stack, innermost frame first
    retval,     \* per thread: the value its last finished callee returned
    results     \* per thread: the top-level calls that have returned

vars == <<cache, mutex, stack, retval, results>>

Threads == 1..NThreads

NoValue == <<>>

EmptyMap == [k \in {} |-> NoValue]

\* Variant: the entry is written under the key before k.
MapInsertAtPrevious(m, k, v) ==
    [x \in DOMAIN m \cup {k - 1} |-> IF x = k - 1 THEN v ELSE m[x]]

MapInsert(m, k, v) == [x \in DOMAIN m \cup {k} |-> IF x = k THEN v ELSE m[x]]

FTP == "find_tuple_partitions"
CAA == "compute_adjacent_assignments"
GST == "group_into_sequential_tuples"
FDO == "full_decomposition_ordering"
SDO == "subsequent_decomposition_ordering"

FtpFrame(n) ==
    [fn |-> FTP, pc |-> "lock_get", num |-> n, groupings |-> NoValue]

CaaFrame(k) ==
    [fn |-> CAA, pc |-> "start", length |-> k, assignments |-> NoValue]

GstFrame(vals) ==
    [fn |-> GST, pc |-> "start", values |-> vals]

FdoFrame(n) ==
    [fn |-> FDO, pc |-> "lock_get", num_cards |-> n, groupings |-> NoValue,
     gi |-> 0, full_decomp |-> <<>>]

\* (In a returned call's record, `from` is the step that returned: "get" when
\* the value came out of the cache, "insert" when it was computed.)
\* shape and trace are history fields: the argument as given, and one record
\* per loop iteration that installed a refinement.
SdoFrame(shape, flag) ==
    [fn |-> SDO, pc |-> "start", shape |-> shape, adj_reqs |-> shape,
     include_new_adjacency |-> flag, decompositions |-> <<>>,
     current_decomps |-> <<>>, h |-> <<>>, subsequent_decomps |-> <<>>,
     trace |-> <<>>]

Top(t) == Head(stack[t])

At(t, fn, pc) == stack[t] # <<>> /\ Top(t).fn = fn /\ Top(t).pc = pc

SetTop(t, f) == stack' = [stack EXCEPT ![t] = <<f>> \o Tail(@)]

\* The caller moves to the frame `f` and calls `callee`.
PushCall(t, f, callee) == stack' = [stack EXCEPT ![t] = <<callee, f>> \o Tail(@)]

ArgOf(f) ==
    CASE f.fn = FTP -> f.num
      [] f.fn = CAA -> f.length
      [] f.fn = GST -> f.values
      [] f.fn = FDO -> f.num_cards
      [] f.fn = SDO -> f.shape

ResultRecord(f, v) ==
    [fn |-> f.fn, arg |-> ArgOf(f), val |-> v, from |-> f.pc,
     flag |-> IF f.fn = SDO THEN f.include_new_adjacency ELSE FALSE,
     trace |-> IF f.fn = SDO THEN f.trace ELSE <<>>]

\* The innermost frame of t returns v, to its caller or to the outside.
Return(t, v) ==
    LET rest == Tail(stack[t]) IN
    /\ stack' = [stack EXCEPT ![t] = rest]
    /\ retval' = [retval EXCEPT ![t] = IF rest = <<>> THEN NoValue ELSE v]
    /\ results' = IF rest = <<>>
                  THEN [results EXCEPT ![t] = Append(@, ResultRecord(Top(t), v))]
                  ELSE results

\* Variant: lock() returns at once, whoever holds the Mutex.
AcquireWithoutWaiting(t, m) == mutex' = [mutex EXCEPT ![m] = t]

Acquire(t, m) == mutex[m] = 0 /\ mutex' = [mutex EXCEPT ![m] = t]

Release(t, m) == mutex[m] = t /\ mutex' = [mutex EXCEPT ![m] = 0]

Init ==
    /\ cache = [GROUP_CACHE |-> EmptyMap,
                SEQUENTIAL_ASSIGNMENT_CACHE |-> EmptyMap,
                FULL_DECOMPOSITION_CACHE |-> EmptyMap]
    /\ mutex = [GROUP_CACHE |-> 0, SEQUENTIAL_ASSIGNMENT_CACHE |-> 0,
                FULL_DECOMPOSITION_CACHE |-> 0]
    /\ stack = [t \in Threads |-> <<>>]
    /\ retval = [t \in Threads |-> NoValue]
    /\ results = [t \in Threads |-> <<>>]

\* ------------------------------------------------- find_tuple_partitions
\* GROUP_CACHE.lock().unwrap() of the lookup block.
FtpLockGet(t) ==
    /\ At(t, FTP, "lock_get")
    /\ Acquire(t, "GROUP_CACHE")
    /\ SetTop(t, [Top(t) EXCEPT !.pc = "get"])
    /\ UNCHANGED <<cache, retval, results>>

\* Variant: the guard of the lookup lives to the end of the function, so a
\* miss goes on with GROUP_CACHE locked.
FtpGetKeepingGuard(t) ==
    /\ At(t, FTP, "get")
    /\ mutex.GROUP_CACHE = t
    /\ LET f == Top(t) IN
       IF f.num \in DOMAIN cache.GROUP_CACHE
       THEN /\ mutex' = [mutex EXCEPT !.GROUP_CACHE = 0]
            /\ Return(t, cache.GROUP_CACHE[f.num])
       ELSE /\ IF f.num = 1
               THEN SetTop(t, [f EXCEPT !.pc = "lock_insert",
                                        !.groupings = TuplePartitionsOf(1, <<>>)])
               ELSE PushCall(t, [f EXCEPT !.pc = "recv"], FtpFrame(f.num - 1))
            /\ UNCHANGED <<mutex, retval, results>>
    /\ UNCHANGED cache

\* m.get(&num) and the end of the block, which drops the guard; on a miss
\* the function goes on to the base case or to the recursive call.
FtpGet(t) ==
    /\ At(t, FTP, "get")
    /\ Release(t, "GROUP_CACHE")
    /\ LET f == Top(t) IN
       IF f.num \in DOMAIN cache.GROUP_CACHE
       THEN Return(t, cache.GROUP_CACHE[f.num])
       ELSE /\ IF f.num = 1
               THEN SetTop(t, [f EXCEPT !.pc = "lock_insert",
                                        !.groupings = TuplePartitionsOf(1, <<>>)])
               ELSE PushCall(t, [f EXCEPT !.pc = "recv"], FtpFrame(f.num - 1))
            /\ UNCHANGED <<retval, results>>
    /\ UNCHANGED cache

\* find_tuple_partitions(num - 1) has returned: build, sort, dedup.
FtpRecv(t) ==
    /\ At(t, FTP, "recv")
    /\ SetTop(t, [Top(t) EXCEPT !.pc = "lock_insert",
                    !.groupings = TuplePartitionsOf(Top(t).num, retval[t])])
    /\ retval' = [retval EXCEPT ![t] = NoValue]
    /\ UNCHANGED <<cache, mutex, results>>

FtpLockInsert(t) ==
    /\ At(t, FTP, "lock_insert")
    /\ Acquire(t, "GROUP_CACHE")
    /\ SetTop(t, [Top(t) EXCEPT !.pc = "insert"])
    /\ UNCHANGED <<cache, retval, results>>

\* m.insert(num, groupings.clone()); the guard is dropped at the return.
FtpInsert(t) ==
    /\ At(t, FTP, "insert")
    /\ Release(t, "GROUP_CACHE")
    /\ cache' = [cache EXCEPT !.GROUP_CACHE =
                    MapInsert(@, Top(t).num, Top(t).groupings)]
    /\ Return(t, Top(t).groupings)

\* ------------------------------------------ compute_adjacent_assignments
CaaStart(t) ==
    /\ At(t, CAA, "start")
    /\ IF Top(t).length = 1
       THEN Return(t, << << <<0>> >> >>)
       ELSE /\ SetTop(t, [Top(t) EXCEPT !.pc = "lock_get"])
            /\ UNCHANGED <<retval, results>>
    /\ UNCHANGED <<cache, mutex>>

CaaLockGet(t) ==
    /\ At(t, CAA, "lock_get")
    /\ Acquire(t, "SEQUENTIAL_ASSIGNMENT_CACHE")
    /\ SetTop(t, [Top(t) EXCEPT !.pc = "get"])
    /\ UNCHANGED <<cache, retval, results>>

CaaGet(t) ==
    /\ At(t, CAA, "get")
    /\ Release(t, "SEQUENTIAL_ASSIGNMENT_CACHE")
    /\ LET f == Top(t) IN
       IF f.length \in DOMAIN cache.SEQUENTIAL_ASSIGNMENT_CACHE
       THEN Return(t, cache.SEQUENTIAL_ASSIGNMENT_CACHE[f.length])
       ELSE /\ PushCall(t, [f EXCEPT !.pc = "recv"], CaaFrame(f.length - 1))
            /\ UNCHANGED <<retval, results>>
    /\ UNCHANGED cache

CaaRecv(t) ==
    /\ At(t, CAA, "recv")
    /\ SetTop(t, [Top(t) EXCEPT !.pc = "lock_insert",
                    !.assignments = AdjacentAssignmentsOf(Top(t).length, retval[t])])
    /\ retval' = [retval EXCEPT ![t] = NoValue]
    /\ UNCHANGED <<cache, mutex, results>>

CaaLockInsert(t) ==
    /\ At(t, CAA, "lock_insert")
    /\ Acquire(t, "SEQUENTIAL_ASSIGNMENT_CACHE")
    /\ SetTop(t, [Top(t) EXCEPT !.pc = "insert"])
    /\ UNCHANGED <<cache, retval, results>>

CaaInsert(t) ==
    /\ At(t, CAA, "insert")
    /\ Release(t, "SEQUENTIAL_ASSIGNMENT_CACHE")
    /\ cache' = [cache EXCEPT !.SEQUENTIAL_ASSIGNMENT_CACHE =
                    MapInsert(@, Top(t).length, Top(t).assignments)]
    /\ Return(t, Top(t).assignments)

\* ------------------------------------------ group_into_sequential_tuples
GstStart(t) ==
    /\ At(t, GST, "start")
    /\ PushCall(t, [Top(t) EXCEPT !.pc = "recv"], CaaFrame(Len(Top(t).values)))
    /\ UNCHANGED <<cache, mutex, retval, results>>

GstRecv(t) ==
    /\ At(t, GST, "recv")
    /\ Return(t, SequentialTuplesOf(Top(t).values, retval[t]))
    /\ UNCHANGED <<cache, mutex>>

\* ------------------------------------------- full_decomposition_ordering
FdoLockGet(t) ==
    /\ At(t, FDO, "lock_get")
    /\ Acquire(t, "FULL_DECOMPOSITION_CACHE")
    /\ SetTop(t, [Top(t) EXCEPT !.pc = "get"])
    /\ UNCHANGED <<cache, retval, results>>

FdoGet(t) ==
    /\ At(t, FDO, "get")
    /\ Release(t, "FULL_DECOMPOSITION_CACHE")
    /\ LET f == Top(t) IN
       IF f.num_cards \in DOMAIN cache.FULL_DECOMPOSITION_CACHE
       THEN Return(t, cache.FULL_DECOMPOSITION_CACHE[f.num_cards])
       ELSE /\ PushCall(t, [f EXCEPT !.pc = "recv_groupings"], FtpFrame(f.num_cards))
            /\ UNCHANGED <<retval, results>>
    /\ UNCHANGED cache

FdoRecvGroupings(t) ==
    /\ At(t, FDO, "recv_groupings")
    /\ SetTop(t, [Top(t) EXCEPT !.pc = "loop", !.groupings = retval[t], !.gi = 1])
    /\ retval' = [retval EXCEPT ![t] = NoValue]
    /\ UNCHANGED <<cache, mutex, results>>

\* One pass of "for group in groupings" up to its call, or the end of the
\* loop and the .unique() that follows it.
FdoLoop(t) ==
    /\ At(t, FDO, "loop")
    /\ LET f == Top(t) IN
       IF f.gi > Len(f.groupings)
       THEN SetTop(t, [f EXCEPT !.pc = "lock_insert",
                                !.full_decomp = Unique(f.full_decomp)])
       ELSE LET group == f.groupings[f.gi] IN
            IF Gt1(group) = <<>>
            THEN SetTop(t, [f EXCEPT !.gi = f.gi + 1,
                               !.full_decomp = Append(@, Singles(Eq1(group)))])
            ELSE PushCall(t, [f EXCEPT !.pc = "recv_gst"], GstFrame(Gt1(group)))
    /\ UNCHANGED <<cache, mutex, retval, results>>

FdoRecvGst(t) ==
    /\ At(t, FDO, "recv_gst")
    /\ LET f == Top(t) IN
       SetTop(t, [f EXCEPT !.pc = "loop", !.gi = f.gi + 1,
                     !.full_decomp =
                        @ \o ExtendDecompositions(retval[t], Eq1(f.groupings[f.gi]))])
    /\ retval' = [retval EXCEPT ![t] = NoValue]
    /\ UNCHANGED <<cache, mutex, results>>

FdoLockInsert(t) ==
    /\ At(t, FDO, "lock_insert")
    /\ Acquire(t, "FULL_DECOMPOSITION_CACHE")
    /\ SetTop(t, [Top(t) EXCEPT !.pc = "insert"])
    /\ UNCHANGED <<cache, retval, results>>

FdoInsert(t) ==
    /\ At(t, FDO, "insert")
    /\ Release(t, "FULL_DECOMPOSITION_CACHE")
    /\ cache' = [cache EXCEPT !.FULL_DECOMPOSITION_CACHE =
                    MapInsert(@, Top(t).num_cards, Top(t).full_decomp)]
    /\ Return(t, Top(t).full_decomp)

\* ------------------------------------- subsequent_decomposition_ordering
\* The empty-run check and the in-place sort of every run.
SdoStart(t) ==
    /\ At(t, SDO, "start")
    /\ LET f == Top(t) IN
       IF \E i \in 1..Len(f.adj_reqs) : f.adj_reqs[i] = <<>>
       THEN Return(t, <<>>)
       ELSE /\ SetTop(t, [f EXCEPT !.pc = "decomp_loop",
                                   !.adj_reqs = SortRuns(f.adj_reqs)])
            /\ UNCHANGED <<retval, results>>
    /\ UNCHANGED <<cache, mutex>>

\* "for adj_req in &adj_reqs" up to its call; after the last run, the set-up
\* of current_decomps and h.
SdoDecompLoop(t) ==
    /\ At(t, SDO, "decomp_loop")
    /\ LET f == Top(t)
           i == Len(f.decompositions) + 1
       IN  IF i <= Len(f.adj_reqs)
           THEN PushCall(t, [f EXCEPT !.pc = "decomp_recv"],
                         FdoFrame(Sum(f.adj_reqs[i])))
           ELSE SetTop(t, [f EXCEPT !.pc = "loop",
                      !.current_decomps =
                          [k \in 1..Len(f.adj_reqs) |-> << f.adj_reqs[k] >>],
                      !.h = [k \in 1..Len(f.adj_reqs) |-> k]])
    /\ UNCHANGED <<cache, mutex, retval, results>>

SdoDecompRecv(t) ==
    /\ At(t, SDO, "decomp_recv")
    /\ LET f == Top(t)
           i == Len(f.decompositions) + 1
       IN  SetTop(t, [f EXCEPT !.pc = "decomp_loop",
                  !.decompositions =
                      Append(@, RefinementQueue(retval[t], f.adj_reqs[i]))])
    /\ retval' = [retval EXCEPT ![t] = NoValue]
    /\ UNCHANGED <<cache, mutex, results>>

\* The frame after one iteration of "loop" that pops a refinement.
LoopIteration(f) ==
    LET h2 == SortIndices(f.h, f.decompositions)
        idx == h2[1]
        v == Last(f.decompositions[idx])
        cur == [f.current_decomps EXCEPT ![idx] = v]
        merged == MergedDecomposition(h2, cur)
        include == Include(h2, cur,
                       CanIncludeNewAdjacency(f.adj_reqs, f.include_new_adjacency))
    IN  [f EXCEPT !.h = h2,
                  !.decompositions = [@ EXCEPT ![idx] = Front(@)],
                  !.current_decomps = cur,
                  !.subsequent_decomps = IF include THEN Append(@, merged) ELSE @,
                  !.trace = Append(@, [idx |-> idx, h |-> h2, current |-> cur,
                                       merged |-> merged])]

\* TRUE when the iteration finds a refinement to pop.
LoopContinues(f) ==
    LET h2 == SortIndices(f.h, f.decompositions)
    IN  h2 # <<>> /\ f.decompositions[h2[1]] # <<>>

SdoLoopIteration(t) ==
    /\ At(t, SDO, "loop")
    /\ LoopContinues(Top(t))
    /\ SetTop(t, LoopIteration(Top(t)))
    /\ UNCHANGED <<cache, mutex, retval, results>>

\* The "else { break; }" and the return of subsequent_decomps.
SdoLoopBreak(t) ==
    /\ At(t, SDO, "loop")
    /\ ~LoopContinues(Top(t))
    /\ Return(t, Top(t).subsequent_decomps)
    /\ UNCHANGED <<cache, mutex>>

\* ---------------------------------------------------------- the callers
Idle(t) == stack[t] = <<>>

Call(t, frame) ==
    /\ stack' = [stack EXCEPT ![t] = <<frame>>]
    /\ UNCHANGED <<cache, mutex, retval, results>>

RECURSIVE Compositions(_)
Compositions(n) ==
    IF n = 0 THEN { <<>> }
    ELSE UNION { { <<first>> \o c : c \in Compositions(n - first) } : first \in 1..n }

\* Runs of positive tuple sizes of at most `cards` cards, the empty run included.
RunsUpTo(cards) == UNION { Compositions(n) : n \in 0..cards }

RECURSIVE ShapesUpTo(_, _)
ShapesUpTo(cards, runs) ==
    IF runs = 0 THEN { <<>> }
    ELSE { <<>> } \cup
         UNION { { <<r>> \o rest : rest \in ShapesUpTo(cards - Sum(r), runs - 1) }
                 : r \in RunsUpTo(cards) }

CallFindTuplePartitions(t, maxKey) ==
    Idle(t) /\ \E n \in 1..maxKey : Call(t, FtpFrame(n))

CallComputeAdjacentAssignments(t, maxKey) ==
    Idle(t) /\ \E k \in 1..maxKey : Call(t, CaaFrame(k))

CallFullDecompositionOrdering(t, maxKey) ==
    Idle(t) /\ \E n \in 1..maxKey : Call(t, FdoFrame(n))

CallSubsequentDecompositionOrdering(t, cards, runs) ==
    /\ Idle(t)
    /\ \E shape \in ShapesUpTo(cards, runs) : \E flag \in BOOLEAN :
           Call(t, SdoFrame(shape, flag))

\* The caller repeats its call with the other flag value.
CallWithOtherFlag(t) ==
    /\ Idle(t)
    /\ Len(results[t]) = 1
    /\ results[t][1].fn = SDO
    /\ Call(t, SdoFrame(results[t][1].arg, ~results[t][1].flag))

EnumStep(t) ==
    \/ FtpLockGet(t) \/ FtpGet(t) \/ FtpRecv(t) \/ FtpLockInsert(t) \/ FtpInsert(t)
    \/ CaaStart(t) \/ CaaLockGet(t) \/ CaaGet(t) \/ CaaRecv(t)
    \/ CaaLockInsert(t) \/ CaaInsert(t)
    \/ GstStart(t) \/ GstRecv(t)
    \/ FdoLockGet(t) \/ FdoGet(t) \/ FdoRecvGroupings(t) \/ FdoLoop(t)
    \/ FdoRecvGst(t) \/ FdoLockInsert(t) \/ FdoInsert(t)

SubStep(t) ==
    \/ SdoStart(t) \/ SdoDecompLoop(t) \/ SdoDecompRecv(t)
    \/ SdoLoopIteration(t) \/ SdoLoopBreak(t)

\* Spec: one caller makes up to MaxCalls calls of the three memoized
\* enumerators, one after the other.
Next ==
    \E t \in {1} :
        \/ /\ Len(results[t]) < MaxCalls
           /\ \/ CallFindTuplePartitions(t, MaxN)
              \/ CallComputeAdjacentAssignments(t, MaxK)
              \/ CallFullDecompositionOrdering(t, MaxN)
        \/ EnumStep(t)

Spec == Init /\ [][Next]_vars

\* SpecSub: in a fresh process, one caller calls
\* subsequent_decomposition_ordering on a shape, then again on the same shape
\* with the other flag value.
NextSub ==
    \E t \in {1} :
        \/ /\ results[t] = <<>>
           /\ CallSubsequentDecompositionOrdering(t, MaxCards, MaxRuns)
        \/ CallWithOtherFlag(t)
        \/ EnumStep(t)
        \/ SubStep(t)

SpecSub == Init /\ [][NextSub]_vars

\* SpecConc: NThreads threads call the four functions concurrently.
ThreadStep(t) ==
    \/ /\ Len(results[t]) < MaxCallsConc
       /\ \/ CallFindTuplePartitions(t, MaxKeyConc)
          \/ CallComputeAdjacentAssignments(t, MaxKeyConc)
          \/ CallFullDecompositionOrdering(t, MaxKeyConc)
          \/ CallSubsequentDecompositionOrdering(t, MaxKeyConc, 1)
    \/ EnumStep(t)
    \/ SubStep(t)

NextConc == \E t \in Threads : ThreadStep(t)

SpecConc == Init /\ [][NextConc]_vars

\* The runs [n] and [2, ..., 2].
Twos(k) == [i \in 1..k |-> 2]

TieRuns == { <<n>> : n \in 1..MaxSingle } \cup { Twos(k) : k \in 1..MaxTwos }

CallOnTwoRuns(t) ==
    /\ Idle(t)
    /\ \E a \in TieRuns : \E b \in TieRuns : \E flag \in BOOLEAN :
           Call(t, SdoFrame(<<a, b>>, flag))

\* The caller repeats its call with the runs of the shape in another order.
CallWithRunsReordered(t) ==
    /\ Idle(t)
    /\ Len(results[t]) = 1
    /\ results[t][1].fn = SDO
    /\ \E shape \in Range(PermutationsOf(results[t][1].arg)) \ {results[t][1].arg} :
           Call(t, SdoFrame(shape, results[t][1].flag))

\* SpecOrder: in a fresh process, one caller calls
\* subsequent_decomposition_ordering on a shape of two runs, then again on the
\* same runs in the other order.
NextOrder ==
    \E t \in {1} :
        \/ /\ results[t] = <<>>
           /\ CallOnTwoRuns(t)
        \/ CallWithRunsReordered(t)
        \/ EnumStep(t)
        \/ SubStep(t)

SpecOrder == Init /\ [][NextOrder]_vars

\* A step of thread t inside a call.
Run(t) == EnumStep(t) \/ SubStep(t)

\* The scheduler lets every thread run again and again, and a thread that
\* can take a Mutex again and again does take it.
Fairness == \A t \in Threads : SF_vars(Run(t))

FairSpecConc == SpecConc /\ Fairness

\* ------------------------------------------------ the functions, uncached
RECURSIVE FindTuplePartitionsUncached(_)
FindTuplePartitionsUncached(num) ==
    TuplePartitionsOf(num, IF num = 1 THEN <<>>
                           ELSE FindTuplePartitionsUncached(num - 1))

RECURSIVE ComputeAdjacentAssignmentsUncached(_)
ComputeAdjacentAssignmentsUncached(length) ==
    IF length = 1 THEN << << <<0>> >> >>
    ELSE AdjacentAssignmentsOf(length, ComputeAdjacentAssignmentsUncached(length - 1))

GroupIntoSequentialTuples(values) ==
    SequentialTuplesOf(values, ComputeAdjacentAssignmentsUncached(Len(values)))

DecompositionsOfGroup(group) ==
    IF Gt1(group) = <<>> THEN << Singles(Eq1(group)) >>
    ELSE ExtendDecompositions(GroupIntoSequentialTuples(Gt1(group)), Eq1(group))

FullDecompositionOrderingUncached(num_cards) ==
    LET groupings == FindTuplePartitionsUncached(num_cards)
    IN  Unique(Concat([g \in 1..Len(groupings) |-> DecompositionsOfGroup(groupings[g])]))

\* ================================================================ claims
\* The top-level calls of function fn that have returned.
Returned(fn) ==
    { r \in UNION { Range(results[t]) : t \in Threads } : r.fn = fn }

\* a is lexicographically greater than b, as sequences of numbers.
LexGreater(a, b) ==
    \E k \in 1..Len(a) :
        /\ \A j \in 1..(k - 1) : j <= Len(b) /\ a[j] = b[j]
        /\ (k > Len(b) \/ a[k] > b[k])

\* The number of integer partitions of n into parts of at most m.
RECURSIVE PartitionCount(_, _)
PartitionCount(n, m) ==
    IF n = 0 THEN 1
    ELSE IF m = 0 THEN 0
    ELSE PartitionCount(n, m - 1) + (IF m <= n THEN PartitionCount(n - m, m) ELSE 0)

IsPartitionOf(e, n) ==
    /\ Len(e) >= 1
    /\ \A i \in 1..Len(e) : e[i] >= 1
    /\ \A i \in 1..(Len(e) - 1) : e[i] >= e[i + 1]
    /\ Sum(e) = n

\* C1: every list find_tuple_partitions(n) returns holds only integer
\* partitions of n (positive parts, non-increasing, summing to n), is in
\* strictly descending lexicographic order (hence without repetition), and has
\* as many entries as n has integer partitions, so none is missing; for n = 4
\* it is [4],[3,1],[2,2],[2,1,1],[1,1,1,1] and for n = 6 it has 11 entries.
C1_AllPartitions ==
    \A r \in Returned(FTP) :
        /\ \A i \in 1..Len(r.val) : IsPartitionOf(r.val[i], r.arg)
        /\ \A i \in 1..(Len(r.val) - 1) : LexGreater(r.val[i], r.val[i + 1])
        /\ Len(r.val) = PartitionCount(r.arg, r.arg)
        /\ r.arg = 4 => r.val = << <<4>>, <<3, 1>>, <<2, 2>>, <<2, 1, 1>>, <<1, 1, 1, 1>> >>
        /\ r.arg = 6 => Len(r.val) = 11

C1_Witness ==
    \E r \in Returned(FTP) : r.arg = 6 /\ Len(r.val) = 11

\* Stirling numbers of the second kind: the set partitions of n labels into
\* k clusters.
RECURSIVE Stirling2(_, _)
Stirling2(n, k) ==
    IF n = 0 THEN (IF k = 0 THEN 1 ELSE 0)
    ELSE IF k = 0 THEN 0
    ELSE k * Stirling2(n - 1, k) + Stirling2(n - 1, k - 1)

RECURSIVE BellFrom(_, _)
BellFrom(n, k) == IF k > n THEN 0 ELSE Stirling2(n, k) + BellFrom(n, k + 1)

Bell(n) == BellFrom(n, 0)

\* The set partition an entry stands for.
ClusterSets(e) == { Range(e[c]) : c \in 1..Len(e) }

\* The largest cluster size of an entry, counted on the entry itself.
LargestCluster(e) ==
    CHOOSE m \in 0..Sum([c \in 1..Len(e) |-> Len(e[c])]) :
        /\ \E c \in 1..Len(e) : Len(e[c]) = m
        /\ \A c \in 1..Len(e) : Len(e[c]) <= m

\* C2: every list compute_adjacent_assignments(k) returns holds Bell(k)
\* pairwise different set partitions of {0..k-1} (no empty cluster, every
\* label in exactly one cluster), hence all of them, ordered by non-increasing
\* largest cluster and, for equal largest cluster, by non-decreasing number of
\* clusters.
C2_AllSetPartitions ==
    \A r \in Returned(CAA) :
        /\ \A i \in 1..Len(r.val) :
              LET e == r.val[i] IN
              /\ \A c \in 1..Len(e) : e[c] # <<>>
              /\ UNION ClusterSets(e) = 0..(r.arg - 1)
              /\ Sum([c \in 1..Len(e) |-> Len(e[c])]) = r.arg
        /\ Cardinality({ ClusterSets(r.val[i]) : i \in 1..Len(r.val) }) = Len(r.val)
        /\ Len(r.val) = Bell(r.arg)
        /\ \A i \in 1..(Len(r.val) - 1) :
              \/ LargestCluster(r.val[i]) > LargestCluster(r.val[i + 1])
              \/ /\ LargestCluster(r.val[i]) = LargestCluster(r.val[i + 1])
                 /\ Len(r.val[i]) <= Len(r.val[i + 1])

C2_Witness ==
    \E r \in Returned(CAA) : r.arg = 4 /\ Len(r.val) = 15

\* A list of runs as an unordered collection.
AsBag(d) == [r \in Range(d) |-> Cardinality({ i \in 1..Len(d) : d[i] = r })]

\* A run a full shape may hold: the singleton [1], or sizes that are all >= 2.
ValidRuns(n) ==
    { c \in Compositions(n) : c = <<1>> \/ \A i \in 1..Len(c) : c[i] >= 2 }

\* Every list of valid runs with n cards in all, in every order of the runs.
RECURSIVE RunLists(_)
RunLists(n) ==
    IF n = 0 THEN { <<>> }
    ELSE UNION { UNION { { <<r>> \o rest : rest \in RunLists(n - k) }
                         : r \in ValidRuns(k) } : k \in 1..n }

\* C3: as unordered collections of runs, the entries of every list
\* full_decomposition_ordering(n) returns are pairwise different and are
\* exactly the collections of valid runs (the singleton [1], or any sequence
\* of sizes >= 2, in any order of the sizes) whose sizes sum to n.
C3_AllFullShapes ==
    \A r \in Returned(FDO) :
        /\ { AsBag(r.val[i]) : i \in 1..Len(r.val) }
              = { AsBag(d) : d \in RunLists(r.arg) }
        /\ Cardinality({ AsBag(r.val[i]) : i \in 1..Len(r.val) }) = Len(r.val)

C3_Witness ==
    \E r \in Returned(FDO) :
        r.arg = 5 /\ \E i \in 1..Len(r.val) : r.val[i] = << <<2, 3>> >>

\* How many tuples of size v a decomposition holds.
SizeCount(d, v) ==
    Sum([i \in 1..Len(d) |-> Cardinality({ j \in 1..Len(d[i]) : d[i][j] = v })])

\* The non-increasing size sequence of a is lexicographically >= that of b:
\* at the largest size the two hold in different numbers, a holds more.
SizesGreaterEq(a, b, n) ==
    LET diff == { v \in 1..n : SizeCount(a, v) # SizeCount(b, v) }
    IN  diff = {} \/ \E v \in diff : /\ \A w \in diff : w <= v
                                     /\ SizeCount(a, v) > SizeCount(b, v)

\* C4: in every list full_decomposition_ordering(n) returns, the
\* non-increasing size sequence of an entry is lexicographically >= that of
\* the next entry, and the first entry is [[n]].
C4_PartitionOrder ==
    \A r \in Returned(FDO) :
        /\ r.val[1] = << <<r.arg>> >>
        /\ \A i \in 1..(Len(r.val) - 1) :
              SizesGreaterEq(r.val[i], r.val[i + 1], r.arg)

C4_Witness ==
    \E r \in Returned(FDO) : r.arg = 6 /\ Len(r.val) = 19

\* The card count of a decomposition.
Cards(d) == Sum([i \in 1..Len(d) |-> Sum(d[i])])

NoZeroSize(d) == \A i \in 1..Len(d) : \A j \in 1..Len(d[i]) : d[i][j] # 0

\* The calls of subsequent_decomposition_ordering in progress.
SdoFrames ==
    { f \in UNION { Range(stack[t]) : t \in Threads } : f.fn = SDO }

\* C5: every decomposition subsequent_decomposition_ordering has emitted, in
\* a call in progress or returned, has the card count of the shape given
\* and holds no tuple size 0.
C5_CardCountPreserved ==
    /\ \A f \in SdoFrames :
          \A i \in 1..Len(f.subsequent_decomps) :
              /\ Cards(f.subsequent_decomps[i]) = Cards(f.shape)
              /\ NoZeroSize(f.subsequent_decomps[i])
    /\ \A r \in Returned(SDO) :
          \A i \in 1..Len(r.val) :
              Cards(r.val[i]) = Cards(r.arg) /\ NoZeroSize(r.val[i])

C5_Witness ==
    \E r \in Returned(SDO) : Len(r.arg) = 2 /\ Cards(r.arg) = 6 /\ Len(r.val) >= 4

\* C6: no decomposition subsequent_decomposition_ordering returns is, as an
\* unordered collection of runs, the shape it was given, whatever the order
\* of the sizes inside the runs given.
C6_NeverTheLead ==
    \A r \in Returned(SDO) :
        \A i \in 1..Len(r.val) : AsBag(r.val[i]) # AsBag(r.arg)

RunsDescending(shape) ==
    \A i \in 1..Len(shape) : \A j \in 1..(Len(shape[i]) - 1) :
        shape[i][j] >= shape[i][j + 1]

\* What does hold of the lead: a shape whose runs are given in descending
\* order is never among the decompositions returned for it.
DescendingLeadNeverReturned ==
    \A r \in Returned(SDO) :
        RunsDescending(r.arg) =>
            \A i \in 1..Len(r.val) : AsBag(r.val[i]) # AsBag(r.arg)

\* The returned calls of one caller that called with both flag values.
BothFlags ==
    { pair \in UNION { { <<results[t][i], results[t][j]>> :
                            i \in 1..Len(results[t]), j \in 1..Len(results[t]) }
                       : t \in Threads } :
        /\ pair[1].fn = SDO /\ pair[2].fn = SDO
        /\ pair[1].arg = pair[2].arg
        /\ pair[1].flag /\ ~pair[2].flag }

MergedOf(steps) == [i \in 1..Len(steps) |-> steps[i].merged]

AllRunsSingle(d) == \A i \in 1..Len(d) : Len(d[i]) = 1

\* C7: for a shape called with both flag values, the call with the flag set
\* returns the merged decomposition of every step, and the call without it
\* returns, in the same order, those of the steps at which no index whose
\* original run has length 1 holds a run of length > 1; so when every run of
\* the shape has length 1 no run of length > 1 is returned, and for [[4]]
\* the list is [[3],[1]], [[2],[2]], [[2],[1],[1]], [[1],[1],[1],[1]].
C7_FlagOnlyFilters ==
    \A pair \in BothFlags :
        LET with == pair[1]
            without == pair[2]
            shape == with.arg
            Allowed(step) ==
                \A i \in 1..Len(shape) :
                    Len(shape[i]) = 1 => AllRunsSingle(step.current[i])
        IN  /\ with.val = MergedOf(with.trace)
            /\ without.val = MergedOf(SelectSeq(with.trace, Allowed))
            /\ AllRunsSingle(shape) =>
                  \A i \in 1..Len(without.val) : AllRunsSingle(without.val[i])
            /\ shape = << <<4>> >> =>
                  /\ without.val = << << <<3>>, <<1>> >>, << <<2>>, <<2>> >>,
                                      << <<2>>, <<1>>, <<1>> >>,
                                      << <<1>>, <<1>>, <<1>>, <<1>> >> >>
                  /\ with.val[2] = << <<2, 2>> >>

C7_Witness ==
    \E pair \in BothFlags :
        pair[1].arg = << <<4>> >> /\ Len(pair[1].val) = 5 /\ Len(pair[2].val) = 4

HasEmptyRun(shape) == \E i \in 1..Len(shape) : shape[i] = <<>>

OnlySingles(shape) == Len(shape) >= 1 /\ \A i \in 1..Len(shape) : shape[i] = <<1>>

\* C8: a call of subsequent_decomposition_ordering on a shape with an empty
\* run returns the empty list in its first step, with no cache read or
\* written and no lock taken; a call on a shape of singleton runs [1]
\* returns the empty list.
C8_DegenerateShapes ==
    [][ \A t \in Threads :
          Len(results'[t]) > Len(results[t]) =>
             LET r == results'[t][Len(results'[t])] IN
             r.fn = SDO =>
                /\ HasEmptyRun(r.arg) =>
                      /\ r.val = <<>>
                      /\ Top(t).pc = "start"
                      /\ Len(stack[t]) = 1
                      /\ cache' = cache
                      /\ mutex' = mutex
                /\ OnlySingles(r.arg) => r.val = <<>> ]_vars

C8_Witness ==
    /\ \E r \in Returned(SDO) : HasEmptyRun(r.arg) /\ Len(r.arg) = 3 /\ ~r.flag
    /\ \E r \in Returned(SDO) : HasEmptyRun(r.arg) /\ r.flag

\* The function whose cache a Mutex protects.
OwnerOf(m) ==
    CASE m = "GROUP_CACHE" -> FTP
      [] m = "SEQUENTIAL_ASSIGNMENT_CACHE" -> CAA
      [] m = "FULL_DECOMPOSITION_CACHE" -> FDO

UncachedValue(fn, arg) ==
    CASE fn = FTP -> FindTuplePartitionsUncached(arg)
      [] fn = CAA -> ComputeAdjacentAssignmentsUncached(arg)
      [] fn = FDO -> FullDecompositionOrderingUncached(arg)

\* C9: whatever the threads do, a returned call of a memoized enumerator
\* returned the value of the uncached computation for its key, whether the
\* cache served it or not; every cache entry is that value for its key; and
\* an entry, once written, keeps its value and is never removed.
C9_CacheTransparent ==
    /\ [](\A r \in Returned(FTP) \cup Returned(CAA) \cup Returned(FDO) :
             r.val = UncachedValue(r.fn, r.arg))
    /\ [](\A m \in DOMAIN cache : \A n \in DOMAIN cache[m] :
             n >= 1 /\ cache[m][n] = UncachedValue(OwnerOf(m), n))
    /\ [][ \A m \in DOMAIN cache : \A n \in DOMAIN cache[m] :
             n \in DOMAIN cache'[m] /\ cache'[m][n] = cache[m][n] ]_vars

\* Two threads called the same enumerator with the same key; one computed the
\* value, the other was served from the cache.
C9_Witness ==
    \E t1 \in Threads : \E t2 \in Threads \ {t1} :
        \E r1 \in Range(results[t1]) : \E r2 \in Range(results[t2]) :
            /\ r1.fn = FDO /\ r2.fn = FDO /\ r1.arg = 2 /\ r2.arg = 2
            /\ r1.from = "insert" /\ r2.from = "get"

KeyOf(f) ==
    CASE f.fn = FTP -> f.num
      [] f.fn = CAA -> f.length
      [] f.fn = FDO -> f.num_cards

QueueTotal(f) == Sum([i \in 1..Len(f.decompositions) |-> Len(f.decompositions[i])])

\* A thread that holds a Mutex is in the lookup or the insert of the
\* function that owns the cache, not in a call made by it.
LocksHeldOnlyAroundCacheAccess ==
    \A m \in DOMAIN mutex :
        mutex[m] # 0 =>
            /\ stack[mutex[m]] # <<>>
            /\ Top(mutex[m]).fn = OwnerOf(m)
            /\ Top(mutex[m]).pc \in {"get", "insert"}

\* A function that calls itself does so with a smaller key, never below 1.
RecursionDecreasesKey ==
    \A t \in Threads : \A k \in 1..(Len(stack[t]) - 1) :
        stack[t][k].fn = stack[t][k + 1].fn =>
            /\ KeyOf(stack[t][k]) >= 1
            /\ KeyOf(stack[t][k]) < KeyOf(stack[t][k + 1])

\* C10: under fair scheduling every call returns: a thread inside a call is
\* eventually outside every call; a thread holds a lock only in the lookup or
\* insert step itself, never across a call; a recursive call has a smaller
\* key; and an iteration of the refinement loop that does not end it removes
\* one queue element.
C10_EveryCallReturns ==
    /\ \A t \in Threads : (stack[t] # <<>>) ~> (stack[t] = <<>>)
    /\ []LocksHeldOnlyAroundCacheAccess
    /\ []RecursionDecreasesKey
    /\ [][ \A t \in Threads :
             (At(t, SDO, "loop") /\ stack'[t] # stack[t] /\ stack'[t] # <<>>)
                => QueueTotal(Head(stack'[t])) = QueueTotal(Top(t)) - 1 ]_vars

\* One thread holds GROUP_CACHE inside a recursive call while another waits
\* for it.
C10_Witness ==
    \E t1 \in Threads : \E t2 \in Threads \ {t1} :
        /\ mutex.GROUP_CACHE = t1
        /\ Len(stack[t1]) >= 2
        /\ At(t2, FTP, "lock_get")

\* The calls of group_into_sequential_tuples that have just returned to
\* full_decomposition_ordering: the values passed and the list returned.
GstReturns ==
    { [values |-> Gt1(Top(t).groupings[Top(t).gi]), val |-> retval[t]] :
        t \in { u \in Threads : At(u, FDO, "recv_gst") } }

\* C11: for values that are all > 1, no two entries of the list
\* group_into_sequential_tuples returns are the same unordered collection of
\* runs (one a reordering of the runs of the other).
C11_DedupAsUnordered ==
    \A g \in GstReturns :
        (\A k \in 1..Len(g.values) : g.values[k] > 1) =>
            \A i \in 1..Len(g.val) : \A j \in 1..Len(g.val) :
                i # j => AsBag(g.val[i]) # AsBag(g.val[j])

\* What does hold of that list: its entries are pairwise different as
\* ordered lists of runs.
GstEntriesDifferAsLists ==
    \A g \in GstReturns :
        \A i \in 1..Len(g.val) : \A j \in 1..Len(g.val) :
            i # j => g.val[i] # g.val[j]

\* The entries of list after the first one equal to x.
RECURSIVE TailAfter(_, _)
TailAfter(list, x) ==
    IF list = <<>> THEN <<>>
    ELSE IF Head(list) = x THEN Tail(list)
    ELSE TailAfter(Tail(list), x)

\* C12: a call of subsequent_decomposition_ordering with the flag set, on a
\* shape of one run R given in descending order such that [R] is an entry of
\* the list full_decomposition_ordering holds for sum(R), returns that
\* list's entries after [R], all of them, in the same order.
C12_SingleRunIsTail ==
    \A r \in Returned(SDO) :
        (Len(r.arg) = 1 /\ r.arg[1] # <<>> /\ r.flag /\ RunsDescending(r.arg)) =>
            LET n == Sum(r.arg[1]) IN
            /\ n \in DOMAIN cache.FULL_DECOMPOSITION_CACHE
            /\ LET full == cache.FULL_DECOMPOSITION_CACHE[n] IN
               (\E i \in 1..Len(full) : full[i] = r.arg) =>
                   r.val = TailAfter(full, r.arg)

\* The call on [[3, 3]] has returned the 12 entries after [[3, 3]].
C12_Witness ==
    \E r \in Returned(SDO) :
        /\ r.arg = << <<3, 3>> >> /\ r.flag
        /\ Len(r.val) = 12
        /\ r.val[1] = << <<3>>, <<3>> >>

\* The calls of subsequent_decomposition_ordering in progress or returned,
\* each with the shape given and the iterations made so far.
SdoTraces ==
    { [shape |-> f.shape, trace |-> f.trace] : f \in SdoFrames }
    \cup { [shape |-> r.arg, trace |-> r.trace] : r \in Returned(SDO) }

\* How many of the first n iterations refined run index i.
RefinementsApplied(trace, n, i) == Cardinality({ m \in 1..n : trace[m].idx = i })

IdenticalRuns(shape) == \A i \in 1..Len(shape) : shape[i] = shape[1]

\* C13: an iteration of the refinement loop pops the queue of an index whose
\* queue is at least as long as every other queue, and the loop ends only
\* when every queue is empty; and for a shape of identical runs, after any
\* number of iterations the numbers of refinements applied to two runs differ
\* by at most one.
C13_LongestQueueFirst ==
    /\ [][ \A t \in Threads :
             (At(t, SDO, "loop") /\ stack'[t] # stack[t]) =>
                LET f == Top(t) IN
                IF stack'[t] # <<>>
                THEN LET g == Head(stack'[t])
                         idx == Last(g.trace).idx
                     IN  /\ Len(g.trace) = Len(f.trace) + 1
                         /\ f.decompositions[idx] # <<>>
                         /\ g.decompositions =
                               [f.decompositions EXCEPT ![idx] = Front(@)]
                         /\ \A j \in 1..Len(f.decompositions) :
                               Len(f.decompositions[idx]) >= Len(f.decompositions[j])
                ELSE \A j \in 1..Len(f.decompositions) :
                         f.decompositions[j] = <<>> ]_vars
    /\ [](\A c \in SdoTraces :
             IdenticalRuns(c.shape) =>
                \A n \in 1..Len(c.trace) :
                    \A i \in 1..Len(c.shape) : \A j \in 1..Len(c.shape) :
                        RefinementsApplied(c.trace, n, i)
                            - RefinementsApplied(c.trace, n, j) \in {-1, 0, 1})

\* In a call on [[3], [3]], one run has been refined to [1],[1],[1] while the
\* other is still [2],[1].
C13_Witness ==
    \E f \in SdoFrames :
        /\ f.shape = << <<3>>, <<3>> >>
        /\ Len(f.trace) = 3
        /\ \E i \in 1..2 : /\ RefinementsApplied(f.trace, 3, i) = 2
                            /\ f.current_decomps[i] = << <<1>>, <<1>>, <<1>> >>
        /\ \E j \in 1..2 : f.current_decomps[j] = << <<2>>, <<1>> >>

Memoized == {FTP, CAA, FDO}

CacheOf(fn) == CHOOSE m \in DOMAIN cache : OwnerOf(m) = fn

\* The keys of fn for which thread t has observed a miss and not yet
\* finished its insert.
MissedKeys(t, fn) ==
    { KeyOf(stack[t][k]) :
        k \in { x \in 1..Len(stack[t]) :
                  /\ stack[t][x].fn = fn
                  /\ stack[t][x].pc \notin {"start", "lock_get", "get"} } }

\* The value a call at its insert step is about to write.
ValueToInsert(f) ==
    CASE f.fn = FTP -> f.groupings
      [] f.fn = CAA -> f.assignments
      [] f.fn = FDO -> f.full_decomp

\* Thread t is in the lookup or the insert of fn.
InCacheAccess(t, fn) ==
    stack[t] # <<>> /\ Top(t).fn = fn /\ Top(t).pc \in {"get", "insert"}

\* C14: for each memoized function and key n, between a thread's miss on n
\* and its insert of n no other thread has missed on n or inserts n, so a
\* thread at its insert finds no entry for its key.
C14_CheckThenInsertExclusive ==
    \A fn \in Memoized :
        /\ \A t1 \in Threads : \A t2 \in Threads \ {t1} :
              MissedKeys(t1, fn) \cap MissedKeys(t2, fn) = {}
        /\ \A t \in Threads :
              At(t, fn, "insert") => KeyOf(Top(t)) \notin DOMAIN cache[CacheOf(fn)]

\* C14 as amended: the lookup and the insert are each exclusive with the
\* other threads' lookups and inserts on the same cache and run with its
\* Mutex held, and a thread that inserts a key another thread has inserted
\* since its miss writes the value already there.
C14_EachAccessExclusive ==
    \A fn \in Memoized :
        /\ \A t1 \in Threads : \A t2 \in Threads \ {t1} :
              ~(InCacheAccess(t1, fn) /\ InCacheAccess(t2, fn))
        /\ \A t \in Threads :
              /\ InCacheAccess(t, fn) => mutex[CacheOf(fn)] = t
              /\ (At(t, fn, "insert")
                      /\ KeyOf(Top(t)) \in DOMAIN cache[CacheOf(fn)])
                    => cache[CacheOf(fn)][KeyOf(Top(t))] = ValueToInsert(Top(t))

\* Two threads have each missed on key 2 of full_decomposition_ordering,
\* computed the value and inserted it.
C14_Witness ==
    \E t1 \in Threads : \E t2 \in Threads \ {t1} :
        \E r1 \in Range(results[t1]) : \E r2 \in Range(results[t2]) :
            /\ r1.fn = FDO /\ r2.fn = FDO /\ r1.arg = 2 /\ r2.arg = 2
            /\ r1.from = "insert" /\ r2.from = "insert"

\* The pairs of returned calls of one caller on the same non-empty runs in
\* two orders, with the same flag value.
Reorderings ==
    { pair \in UNION { { <<results[t][i], results[t][j]>> :
                            i \in 1..Len(results[t]), j \in 1..Len(results[t]) }
                       : t \in Threads } :
        /\ pair[1].fn = SDO /\ pair[2].fn = SDO
        /\ pair[1].flag = pair[2].flag
        /\ ~HasEmptyRun(pair[1].arg)
        /\ pair[1].arg # pair[2].arg
        /\ AsBag(pair[1].arg) = AsBag(pair[2].arg) }

\* C15: subsequent_decomposition_ordering returns the same list, entry for
\* entry, for a shape and for the same runs given in another order, with
\* either flag value.
C15_RunOrderIrrelevant ==
    \A pair \in Reorderings : pair[1].val = pair[2].val

====
